---- MODULE Spec2Model ----
(***************************************************************************)
(* input2cmds (src/src/main.rs): configuration loading (load_config), the  *)
(* per-device reader threads it spawns, and the dispatch loop of main.     *)
(*                                                                         *)
(* Text is modelled as sequences of one-character strings, so that the     *)
(* comment stripping, colon splitting and whitespace tokenisation of       *)
(* load_config are computed as the code computes them.                     *)
(***************************************************************************)
EXTENDS Integers, Sequences, FiniteSets, TLC

\* ------------------------------------------------------------------ bounds

\* Records the device streams deliver in all before they only block or fail.
MaxRecords == 3

\* --------------------------------------------------------------- constants

EV_SYN == 0
EV_MSC == 4
U16_MAX == 65535
I32_MAX == 2147483647
EXIT_FAILURE == 1

\* ------------------------------------------------------------------- text

IsWhitespace(c) == c \in {" ", "\t"}

Digit == {"0", "1", "2", "3", "4", "5", "6", "7", "8", "9"}

DigitVal(c) ==
    CASE c = "0" -> 0 [] c = "1" -> 1 [] c = "2" -> 2 [] c = "3" -> 3
      [] c = "4" -> 4 [] c = "5" -> 5 [] c = "6" -> 6 [] c = "7" -> 7
      [] c = "8" -> 8 [] c = "9" -> 9

\* Index of the first occurrence of character c in s, 0 when there is none.
FindChar(s, c) ==
    IF \E i \in 1..Len(s) : s[i] = c
    THEN CHOOSE i \in 1..Len(s) : s[i] = c /\ \A j \in 1..(i-1) : s[j] # c
    ELSE 0

\* line.split('#').next().unwrap_or("")
StripComment(line) ==
    LET h == FindChar(line, "#")
    IN  IF h = 0 THEN line ELSE SubSeq(line, 1, h - 1)

TrimStartNone(s) == s

\* while !colon.is_empty() && first char is whitespace { colon = &colon[1..] }
RECURSIVE TrimStart(_)
TrimStart(s) ==
    IF s # <<>> /\ IsWhitespace(s[1]) THEN TrimStart(Tail(s)) ELSE s

\* str::split(char::is_whitespace): one piece per separator, empty pieces kept.
RECURSIVE SplitWhitespace(_)
SplitWhitespace(s) ==
    IF \E i \in 1..Len(s) : IsWhitespace(s[i])
    THEN LET i == CHOOSE k \in 1..Len(s) :
                      IsWhitespace(s[k]) /\ \A j \in 1..(k-1) : ~IsWhitespace(s[j])
         IN  <<SubSeq(s, 1, i - 1)>> \o SplitWhitespace(SubSeq(s, i + 1, Len(s)))
    ELSE <<s>>

\* The token vector `splat` of one line: the text before the first ':' split
\* on whitespace, then the trimmed text after the ':' as one more token.
Splat(rawLine) ==
    LET line      == StripComment(rawLine)
        colon_pos == FindChar(line, ":")
    IN  IF colon_pos # 0
        THEN SplitWhitespace(SubSeq(line, 1, colon_pos - 1))
               \o <<TrimStart(SubSeq(line, colon_pos + 1, Len(line)))>>
        ELSE SplitWhitespace(line)

StartsWith(s, p) == Len(s) >= Len(p) /\ SubSeq(s, 1, Len(p)) = p

\* Option<T>
None == [some |-> FALSE, val |-> 0]
Some(x) == [some |-> TRUE, val |-> x]

RECURSIVE DigitsValue(_, _)
DigitsValue(s, acc) ==
    IF s = <<>> THEN acc ELSE DigitsValue(Tail(s), 10 * acc + DigitVal(s[1]))

\* str::parse for an integer type with range lo..hi: an optional sign ('-'
\* only for a signed type), then one or more digits, no overflow.
ParseInt(s, lo, hi) ==
    LET signed == s # <<>> /\ (s[1] = "+" \/ (s[1] = "-" /\ lo < 0))
        body   == IF signed THEN Tail(s) ELSE s
    IN  IF body = <<>> \/ \E i \in 1..Len(body) : body[i] \notin Digit
        THEN None
        ELSE LET mag == DigitsValue(body, 0)
                 v   == IF signed /\ s[1] = "-" THEN 0 - mag ELSE mag
             IN  IF lo <= v /\ v <= hi THEN Some(v) ELSE None

T_dev   == <<"d", "e", "v">>
T_if    == <<"i", "f">>
T_then  == <<"t", "h", "e", "n">>
T_type  == <<"t", "y", "p", "e", "=">>
T_code  == <<"c", "o", "d", "e", "=">>
T_value == <<"v", "a", "l", "u", "e", "=">>

\* ------------------------------------------------------------ load_config

\* What one line of a configuration file makes load_config do.
\*   skip  : `continue`                 dev  : open `dev` and spawn a reader
\*   rule  : push `rule` onto matches   err  : return Err(anyhow!(text))
\*   panic : the slice index of line 156 is out of range
Outcome(kind, text, dev, rule) ==
    [kind |-> kind, text |-> text, dev |-> dev, rule |-> rule]

InputMatch(wt, wc, wv, cmd) ==
    [wants_type |-> wt, wants_code |-> wc, wants_value |-> wv,
     command_to_run |-> cmd]

NoRule == InputMatch(None, None, None, <<>>)

\* The `while !rest.is_empty() && rest[0] != "then"` loop of the "if" arm.
\* err is "" when the loop ends without returning.
RECURSIVE ParseConditions(_, _, _, _)
ParseConditions(rest, wt, wc, wv) ==
    IF rest = <<>> \/ rest[1] = T_then
    THEN [err |-> "", rest |-> rest, wt |-> wt, wc |-> wc, wv |-> wv]
    ELSE LET el == rest[1]
             fail(text) == [err |-> text, rest |-> Tail(rest),
                            wt |-> wt, wc |-> wc, wv |-> wv]
         IN  IF StartsWith(el, T_type)
             THEN IF wt.some THEN fail("multiple \"type=\"s")
                  ELSE LET parsed == ParseInt(SubSeq(el, 6, Len(el)), 0, U16_MAX)
                       IN  IF ~parsed.some THEN fail("invalid \"type=\"")
                           ELSE ParseConditions(Tail(rest), parsed, wc, wv)
             ELSE IF StartsWith(el, T_code)
             THEN IF wc.some THEN fail("multiple \"code=\"")
                  ELSE LET parsed == ParseInt(SubSeq(el, 6, Len(el)), 0, U16_MAX)
                       IN  IF ~parsed.some THEN fail("invalid \"code=\"s")
                           ELSE ParseConditions(Tail(rest), wt, parsed, wv)
             ELSE IF StartsWith(el, T_value)
             THEN IF wv.some THEN fail("multiple \"value=\"s")
                  ELSE LET parsed == ParseInt(SubSeq(el, 7, Len(el)),
                                              0 - I32_MAX - 1, I32_MAX)
                       IN  IF ~parsed.some THEN fail("invalid \"value=\"")
                           ELSE ParseConditions(Tail(rest), wt, wc, parsed)
             ELSE fail("wanted \"type=\", \"code=\", \"value\"=, or \"then\" after \"if\"")

\* The "if" arm (lines 93-169) on the tokens after "if".
IfDirective(params) ==
    LET c == ParseConditions(params, None, None, None)
    IN  IF c.err # "" THEN Outcome("err", c.err, <<>>, NoRule)
        \* rest = &rest[1..]: out of range when no token is left
        ELSE IF c.rest = <<>> THEN Outcome("panic", "range start index 1 out of range for slice of length 0", <<>>, NoRule)
        ELSE LET rest == Tail(c.rest)
             IN  IF rest = <<>>
                 THEN Outcome("err", "\"if\" needs a \"then\"", <<>>, NoRule)
                 ELSE IF Len(rest) >= 2
                 THEN Outcome("err", "put a colon after \"then\"", <<>>, NoRule)
                 ELSE Outcome("rule", "", <<>>,
                              InputMatch(c.wt, c.wc, c.wv, rest[1]))

\* The "dev" arm up to the open of the device (lines 61-67).
DevDirective(splat) ==
    IF Len(splat) # 2
    THEN Outcome("err", "dev wants only one parameter", <<>>, NoRule)
    ELSE Outcome("dev", "", splat[2], NoRule)

\* The body of the `for line in reader.lines()` loop (lines 45-174).
ProcessLine(rawLine) ==
    LET splat == Splat(rawLine)
    IN  IF splat = <<>> \/ splat[1] = <<>> THEN Outcome("skip", "", <<>>, NoRule)
        ELSE IF splat[1] = T_dev THEN DevDirective(splat)
        ELSE IF splat[1] = T_if THEN IfDirective(Tail(splat))
        ELSE Outcome("err", "Unknown config directive", <<>>, NoRule)

\* ------------------------------------------------------------ environment

\* The configuration files of the file system, by path: the lines of each.
ConfigFiles ==
       ("first.conf" :> <<
          <<"#", " ", "p", "a", "d">>,
          <<"d", "e", "v", " ", "/", "a">>,
          <<"i", "f", " ", "t", "y", "p", "e", "=", "1", " ", "t", "h", "e", "n", ":", " ", "A">>,
          <<"i", "f", " ", "t", "y", "p", "e", "=", "1", " ", "c", "o", "d", "e", "=", "5", " ", "t", "h", "e", "n", ":", " ", "B">>>>)
    @@ ("second.conf" :> <<
          <<"d", "e", "v", " ", "/", "b">>,
          <<>>,
          <<"i", "f", " ", "c", "o", "d", "e", "=", "5", " ", "v", "a", "l", "u", "e", "=", "0", " ", "t", "h", "e", "n", ":", " ", "C">>>>)
    @@ ("devonly.conf" :> <<
          <<"d", "e", "v", " ", "/", "a">>>>)
    @@ ("empty.conf" :> <<
          <<"#", " ", "n", "o", " ", "d", "e", "v", "i", "c", "e">>,
          <<>>>>)
    @@ ("baddev.conf" :> <<
          <<"i", "f", " ", "t", "y", "p", "e", "=", "3", " ", "t", "h", "e", "n", ":", " ", "D">>,
          <<"d", "e", "v", " ", "/", "n", "o">>>>)
    @@ ("nothen.conf" :> <<
          <<"d", "e", "v", " ", "/", "a">>,
          <<"i", "f", " ", "t", "y", "p", "e", "=", "1", " ", "c", "o", "d", "e", "=", "2">>>>)
    @@ ("bareif.conf" :> <<
          <<"d", "e", "v", " ", "/", "a">>,
          <<"i", "f">>>>)
    @@ ("thenonly.conf" :> <<
          <<"d", "e", "v", " ", "/", "a">>,
          <<"i", "f", " ", "t", "y", "p", "e", "=", "1", " ", "t", "h", "e", "n">>>>)
    @@ ("nocolon.conf" :> <<
          <<"d", "e", "v", " ", "/", "a">>,
          <<"i", "f", " ", "t", "y", "p", "e", "=", "1", " ", "t", "h", "e", "n", " ", "A", " ", "B">>>>)
    @@ ("twice.conf" :> <<
          <<"d", "e", "v", " ", "/", "a">>,
          <<"i", "f", " ", "t", "y", "p", "e", "=", "1", " ", "t", "y", "p", "e", "=", "2", " ", "t", "h", "e", "n", ":", " ", "A">>>>)
    @@ ("badint.conf" :> <<
          <<"d", "e", "v", " ", "/", "a">>,
          <<"i", "f", " ", "c", "o", "d", "e", "=", "x", " ", "t", "h", "e", "n", ":", " ", "A">>>>)
    @@ ("unknown.conf" :> <<
          <<"d", "e", "v", " ", "/", "a">>,
          <<>>,
          <<"f", "o", "o">>>>)
    @@ ("devargs.conf" :> <<
          <<"d", "e", "v", " ", "/", "a">>,
          <<"d", "e", "v">>>>)
    @@ ("indent.conf" :> <<
          <<" ", "d", "e", "v", " ", "/", "a">>,
          <<"i", "f", " ", "t", "h", "e", "n", ":", " ", "A">>>>)
    @@ ("trail.conf" :> <<
          <<"d", "e", "v", " ", "/", "a", " ", "#", " ", "p", "a", "d">>>>)
    @@ ("spaces.conf" :> <<
          <<"d", "e", "v", " ", " ", "/", "a">>>>)
    @@ ("hash.conf" :> <<
          <<"d", "e", "v", " ", "/", "a">>,
          <<"i", "f", " ", "t", "y", "p", "e", "=", "1", " ", "t", "h", "e", "n", ":", " ", "A", " ", "#", " ", "B">>>>)
    @@ ("colon.conf" :> <<
          <<"d", "e", "v", " ", "/", "a">>,
          <<"i", "f", " ", "t", "y", "p", "e", "=", "1", " ", "t", "h", "e", "n", ":", " ", " ", "A", " ", "B", ":", "C">>>>)

\* The command lines the program is started with: the free arguments, which
\* are the configuration paths in the order given ("missing.conf" is no file).
ArgChoices ==
    { <<"first.conf", "second.conf">>, <<"devonly.conf">>, <<"empty.conf">>,
      <<"first.conf", "baddev.conf">>, <<"first.conf", "missing.conf">>,
      <<"nothen.conf">>, <<"bareif.conf">>, <<"thenonly.conf">>,
      <<"nocolon.conf">>, <<"twice.conf">>, <<"badint.conf">>,
      <<"unknown.conf">>, <<"devargs.conf">>, <<"indent.conf">>,
      <<"trail.conf">>, <<"spaces.conf">>, <<"hash.conf">>, <<"colon.conf">> }

\* The device nodes that can be opened for reading.
ExistingDevices == { <<"/", "a">>, <<"/", "b">> }

Event(t, c, v) == [type |-> t, code |-> c, value |-> v]

\* The records a device can deliver (libc::input_event, timestamp left out).
DeviceEvents(dev_path) ==
    IF dev_path = <<"/", "a">>
    THEN { Event(EV_SYN, 0, 0), Event(1, 5, 0), Event(3, 5, 0) }
    ELSE { Event(EV_MSC, 4, 1), Event(1, 5, 0), Event(2, 2, 2) }

\* ------------------------------------------------------------------ state

VARIABLES
    args,          \* the configuration paths of the command line (`free`)
    verbose,       \* the -v flag
    pc,            \* where the main thread is
    conf,          \* index in args of the configuration being loaded
    line_number,   \* load_config's line_number
    matches,       \* the Vec<InputMatch> of main
    event_tx,      \* main still holds its Sender
    event_rx,      \* the Receiver still exists
    readers,       \* the reader threads, in spawn order
    queue,         \* the events in the channel
    children,      \* /bin/sh processes spawned and not yet waited for
    stdout,        \* what was printed to standard output
    stderr,        \* what was printed to standard error
    exit_status,   \* the status given to process::exit, None before
    handled        \* history: the events received and what was done for each

vars == <<args, verbose, pc, conf, line_number, matches, event_tx, event_rx,
          readers, queue, children, stdout, stderr, exit_status, handled>>

\* The process is gone once main called exit or finished unwinding a panic.
ProcessAlive == pc \notin {"exit_config", "exit_loop", "panicked"}

Reader(dev_path) == [dev_path |-> dev_path, state |-> "running", nread |-> 0]

Running(r) == readers[r].state = "running"

\* A formatted anyhow!("{}:{}: ...", path, line_number) error, as main prints it.
ParseError(path, ln, text) ==
    [kind |-> "error", where |-> <<path, ln>>, text |-> text, about |-> <<>>]

\* An io::Error under .context(text): Display shows the context alone.
ContextError(text, about) ==
    [kind |-> "error", where |-> <<>>, text |-> text, about |-> about]

PanicMessage(text, about) ==
    [kind |-> "panic", where |-> <<>>, text |-> text, about |-> about]

Init ==
    /\ args \in ArgChoices
    /\ verbose \in BOOLEAN
    /\ pc = "config"
    /\ conf = 1
    /\ line_number = 0
    /\ matches = <<>>
    /\ event_tx = TRUE
    /\ event_rx = TRUE
    /\ readers = <<>>
    /\ queue = <<>>
    /\ children = 0
    /\ stdout = <<>>
    /\ stderr = <<>>
    /\ exit_status = None
    /\ handled = <<>>

\* ---------------------------------------------------- main: configuration

\* An error that is printed and then ignored: the next configuration is loaded.
ExitConfigForgotten(message) ==
    /\ stderr' = Append(stderr, message)
    /\ pc' = "config"
    /\ conf' = conf + 1
    /\ UNCHANGED <<args, verbose, matches, event_tx, event_rx, readers,
                   queue, children, stdout, exit_status, handled>>

\* eprintln!("{}", x); exit(1)
ExitConfig(message) ==
    /\ stderr' = Append(stderr, message)
    /\ pc' = "exit_config"
    /\ exit_status' = Some(EXIT_FAILURE)
    /\ UNCHANGED <<args, verbose, conf, matches, event_tx, event_rx, readers,
                   queue, children, stdout, handled>>

\* A panic of the main thread: the message, then unwinding drops its locals.
MainPanics(text) ==
    /\ stderr' = Append(stderr, PanicMessage(text, <<>>))
    /\ pc' = "unwinding"
    /\ event_tx' = FALSE
    /\ event_rx' = FALSE

\* load_config opens the next configuration file.
OpenConfig ==
    /\ pc = "config"
    /\ conf <= Len(args)
    /\ args[conf] \in DOMAIN ConfigFiles
    /\ pc' = "lines"
    /\ line_number' = 0
    /\ UNCHANGED <<args, verbose, conf, matches, event_tx, event_rx, readers,
                   queue, children, stdout, stderr, exit_status, handled>>

OpenConfigFails ==
    /\ pc = "config"
    /\ conf <= Len(args)
    /\ args[conf] \notin DOMAIN ConfigFiles
    /\ ExitConfig(ContextError("opening the file", <<>>))
    /\ UNCHANGED line_number

\* The next line of the file being loaded, and what it makes load_config do.
AtLine == pc = "lines" /\ line_number < Len(ConfigFiles[args[conf]])
NextLine == ConfigFiles[args[conf]][line_number + 1]

LineSkipped ==
    /\ AtLine
    /\ ProcessLine(NextLine).kind = "skip"
    /\ line_number' = line_number + 1
    /\ UNCHANGED <<args, verbose, pc, conf, matches, event_tx, event_rx,
                   readers, queue, children, stdout, stderr, exit_status, handled>>

\* The rule of the line pushed in front of the table.
LineIfInFront ==
    /\ AtLine
    /\ ProcessLine(NextLine).kind = "rule"
    /\ line_number' = line_number + 1
    /\ matches' = <<ProcessLine(NextLine).rule>> \o matches
    /\ UNCHANGED <<args, verbose, pc, conf, event_tx, event_rx, readers,
                   queue, children, stdout, stderr, exit_status, handled>>

LineIf ==
    /\ AtLine
    /\ ProcessLine(NextLine).kind = "rule"
    /\ line_number' = line_number + 1
    /\ matches' = Append(matches, ProcessLine(NextLine).rule)
    /\ UNCHANGED <<args, verbose, pc, conf, event_tx, event_rx, readers,
                   queue, children, stdout, stderr, exit_status, handled>>

LineDev ==
    /\ AtLine
    /\ ProcessLine(NextLine).kind = "dev"
    /\ ProcessLine(NextLine).dev \in ExistingDevices
    /\ line_number' = line_number + 1
    /\ readers' = Append(readers, Reader(ProcessLine(NextLine).dev))
    /\ UNCHANGED <<args, verbose, pc, conf, matches, event_tx, event_rx,
                   queue, children, stdout, stderr, exit_status, handled>>

\* File::open(&dev_path).with_context(|| format!("opening device {:?}", ..))?
DevOpenError(path, ln, dev_path) == ContextError("opening device", dev_path)

LineDevOpenFails ==
    /\ AtLine
    /\ ProcessLine(NextLine).kind = "dev"
    /\ ProcessLine(NextLine).dev \notin ExistingDevices
    /\ line_number' = line_number + 1
    /\ ExitConfig(DevOpenError(args[conf], line_number + 1,
                               ProcessLine(NextLine).dev))

LineError ==
    /\ AtLine
    /\ ProcessLine(NextLine).kind = "err"
    /\ line_number' = line_number + 1
    /\ ExitConfig(ParseError(args[conf], line_number + 1,
                             ProcessLine(NextLine).text))

LinePanics ==
    /\ AtLine
    /\ ProcessLine(NextLine).kind = "panic"
    /\ line_number' = line_number + 1
    /\ MainPanics(ProcessLine(NextLine).text)
    /\ UNCHANGED <<args, verbose, conf, matches, readers, queue, children,
                   stdout, exit_status, handled>>

\* The dispatch loop entered at the end of the first configuration.
EndOfConfigDispatches ==
    /\ pc = "lines"
    /\ line_number = Len(ConfigFiles[args[conf]])
    /\ pc' = "recv"
    /\ conf' = conf + 1
    /\ event_tx' = FALSE
    /\ UNCHANGED <<args, verbose, line_number, matches, event_rx,
                   readers, queue, children, stdout, stderr, exit_status, handled>>

\* The end of the file: load_config returns Ok(()).
EndOfConfig ==
    /\ pc = "lines"
    /\ line_number = Len(ConfigFiles[args[conf]])
    /\ pc' = "config"
    /\ conf' = conf + 1
    /\ UNCHANGED <<args, verbose, line_number, matches, event_tx, event_rx,
                   readers, queue, children, stdout, stderr, exit_status, handled>>

\* The dispatch loop entered without dropping main's Sender.
StartDispatchKeepsSender ==
    /\ pc = "config"
    /\ conf > Len(args)
    /\ pc' = "recv"
    /\ UNCHANGED <<args, verbose, conf, line_number, matches, event_tx,
                   event_rx, readers, queue, children, stdout, stderr,
                   exit_status, handled>>

\* std::mem::drop(event_tx), then the dispatch loop.
StartDispatch ==
    /\ pc = "config"
    /\ conf > Len(args)
    /\ event_tx' = FALSE
    /\ pc' = "recv"
    /\ UNCHANGED <<args, verbose, conf, line_number, matches, event_rx,
                   readers, queue, children, stdout, stderr, exit_status, handled>>

\* ---------------------------------------------------------- reader threads

\* A filter that forgot EV_MSC.
FilteredSynOnly(event) == event.type = EV_SYN

\* match event.type_ { 0 /* EV_SYN */ | 4 /* EV_MSC */ => continue, _ => () }
Filtered(event) == event.type \in {EV_SYN, EV_MSC}

\* What event_sender.send(*event) puts in the channel. dev and seq are history
\* (which reader sent it, as its how-manieth record); the program has neither.
Sent(event, r) ==
    [type |-> event.type, code |-> event.code, value |-> event.value,
     dev |-> r, seq |-> readers[r].nread + 1]

\* A reader that goes on reading after it has stopped.
CanReadOnceSpawned(r) ==
    /\ ProcessAlive
    /\ r \in 1..Len(readers)

CanRead(r) ==
    /\ ProcessAlive
    /\ r \in 1..Len(readers)
    /\ Running(r)

RECURSIVE RecordsRead(_)
RecordsRead(rs) == IF rs = <<>> THEN 0 ELSE rs[1].nread + RecordsRead(Tail(rs))

\* The stream of reader r has a record to deliver.
HasRecord(r) == CanRead(r) /\ RecordsRead(readers) < MaxRecords

\* One turn of the loop: a record is read and dropped by the filter.
ReaderFilters(r) ==
    /\ HasRecord(r)
    /\ \E event \in DeviceEvents(readers[r].dev_path) :
          /\ Filtered(event)
          /\ readers' = [readers EXCEPT ![r].nread = @ + 1]
    /\ UNCHANGED <<args, verbose, pc, conf, line_number, matches, event_tx,
                   event_rx, queue, children, stdout, stderr, exit_status, handled>>

\* A channel that hands out the newest event first.
ReaderForwardsInFront(r) ==
    /\ HasRecord(r)
    /\ event_rx
    /\ \E event \in DeviceEvents(readers[r].dev_path) :
          /\ ~Filtered(event)
          /\ queue' = <<Sent(event, r)>> \o queue
          /\ readers' = [readers EXCEPT ![r].nread = @ + 1]
    /\ UNCHANGED <<args, verbose, pc, conf, line_number, matches, event_tx,
                   event_rx, children, stdout, stderr, exit_status, handled>>

\* One turn of the loop: a record is read and sent.
ReaderForwards(r) ==
    /\ HasRecord(r)
    /\ event_rx
    /\ \E event \in DeviceEvents(readers[r].dev_path) :
          /\ ~Filtered(event)
          /\ queue' = Append(queue, Sent(event, r))
          /\ readers' = [readers EXCEPT ![r].nread = @ + 1]
    /\ UNCHANGED <<args, verbose, pc, conf, line_number, matches, event_tx,
                   event_rx, children, stdout, stderr, exit_status, handled>>

\* A record is read, the send fails (the Receiver is gone): break.
ReaderSendFails(r) ==
    /\ HasRecord(r)
    /\ ~event_rx
    /\ \E event \in DeviceEvents(readers[r].dev_path) : ~Filtered(event)
    /\ readers' = [readers EXCEPT ![r].nread = @ + 1, ![r].state = "ended"]
    /\ UNCHANGED <<args, verbose, pc, conf, line_number, matches, event_tx,
                   event_rx, queue, children, stdout, stderr, exit_status, handled>>

\* A failed read that takes the whole process down (as under panic = "abort").
ReaderReadAborts(r) ==
    /\ CanRead(r)
    /\ readers' = [readers EXCEPT ![r].state = "panicked"]
    /\ stderr' = Append(stderr, PanicMessage("Error reading from",
                                             readers[r].dev_path))
    /\ pc' = "panicked"
    /\ UNCHANGED <<args, verbose, conf, line_number, matches, event_tx,
                   event_rx, queue, children, stdout, exit_status, handled>>

\* read_exact fails (an I/O error, or the end of the stream inside a record):
\* .expect(&error) panics, which ends this thread and drops its Sender.
ReaderReadFails(r) ==
    /\ CanRead(r)
    /\ readers' = [readers EXCEPT ![r].state = "panicked"]
    /\ stderr' = Append(stderr, PanicMessage("Error reading from",
                                             readers[r].dev_path))
    /\ UNCHANGED <<args, verbose, pc, conf, line_number, matches, event_tx,
                   event_rx, queue, children, stdout, exit_status, handled>>

\* --------------------------------------------------------- main: dispatch

NoCommand == [some |-> FALSE, val |-> <<>>]

\* A comparison that lets a rule select only what the first device sent.
MatchesFirstDevice(possibility, event) ==
    /\ event.dev = 1
    /\ possibility.wants_type.some => possibility.wants_type.val = event.type
    /\ possibility.wants_code.some => possibility.wants_code.val = event.code
    /\ possibility.wants_value.some => possibility.wants_value.val = event.value

\* The three `match possibility.wants_* { Some(x) if event.* != x => continue }`
Matches(possibility, event) ==
    /\ ~(possibility.wants_type.some /\ event.type # possibility.wants_type.val)
    /\ ~(possibility.wants_code.some /\ event.code # possibility.wants_code.val)
    /\ ~(possibility.wants_value.some /\ event.value # possibility.wants_value.val)

\* A scan without the `break`: the last matching rule would win.
RECURSIVE FindCommandNoBreak(_, _)
FindCommandNoBreak(possibilities, event) ==
    IF possibilities = <<>> THEN NoCommand
    ELSE LET later == FindCommandNoBreak(Tail(possibilities), event)
         IN  IF later.some THEN later
             ELSE IF Matches(possibilities[1], event)
                  THEN Some(possibilities[1].command_to_run)
                  ELSE NoCommand

\* for possibility in matches.iter() { ...; command = Some(..); break }
RECURSIVE FindCommand(_, _)
FindCommand(possibilities, event) ==
    IF possibilities = <<>> THEN NoCommand
    ELSE IF Matches(possibilities[1], event)
         THEN Some(possibilities[1].command_to_run)
         ELSE FindCommand(Tail(possibilities), event)

Printed(kind, event, text) ==
    [kind |-> kind, type |-> event.type, code |-> event.code,
     value |-> event.value, text |-> text]

NoEvent == Event(0, 0, 0)

\* print!("if type={} code={} value={} then: {}", ...) when verbose
EventLine(event, command) ==
    IF verbose THEN <<Printed("event", event, command)>> ELSE <<>>

\* The template printed without looking at -v.
TemplateLineAlways(event) == <<Printed("template", event, <<>>)>>

\* println!("if type={} code={} value={} then: ...", ...) when verbose
TemplateLine(event) ==
    IF verbose THEN <<Printed("template", event, <<>>)>> ELSE <<>>

\* println!(" # OK") or println!(" # {}", exit_status)
OutcomeLine(success) ==
    IF success THEN <<Printed("ok", NoEvent, <<>>)>>
    ELSE <<Printed("status", NoEvent, <<>>)>>

\* One entry of the history: the event received, the command found for it,
\* and whether it was spawned.
Handled(event, command, spawned) ==
    [event |-> event, command |-> command, spawned |-> spawned]

CanReceive == pc = "recv" /\ queue # <<>>

\* A dispatcher that spawns and goes back to recv without child.wait().
DispatchCommandNoWait ==
    /\ pc = "recv" /\ queue # <<>>
    /\ LET event == Head(queue)
           command == FindCommand(matches, event)
       IN  /\ command.some
           /\ stdout' = stdout \o EventLine(event, command.val)
           /\ handled' = Append(handled, Handled(event, command, TRUE))
    /\ queue' = Tail(queue)
    /\ children' = children + 1
    /\ UNCHANGED <<args, verbose, pc, conf, line_number, matches, event_tx,
                   event_rx, readers, stderr, exit_status>>

\* recv yields an event, a rule matches, /bin/sh -c command is spawned.
DispatchCommand ==
    /\ CanReceive
    /\ LET event == Head(queue)
           command == FindCommand(matches, event)
       IN  /\ command.some
           /\ stdout' = stdout \o EventLine(event, command.val)
           /\ handled' = Append(handled, Handled(event, command, TRUE))
    /\ queue' = Tail(queue)
    /\ children' = children + 1
    /\ pc' = "wait"
    /\ UNCHANGED <<args, verbose, conf, line_number, matches, event_tx,
                   event_rx, readers, stderr, exit_status>>

\* A failed spawn that is reported and passed over.
DispatchSpawnFailsGoesOn ==
    /\ CanReceive
    /\ LET event == Head(queue)
           command == FindCommand(matches, event)
       IN  /\ command.some
           /\ stdout' = stdout \o EventLine(event, command.val)
           /\ handled' = Append(handled, Handled(event, command, FALSE))
    /\ queue' = Tail(queue)
    /\ stderr' = Append(stderr, PanicMessage("Couldn't execute /bin/sh", <<>>))
    /\ UNCHANGED <<args, verbose, pc, conf, line_number, matches, event_tx,
                   event_rx, readers, children, exit_status>>

\* recv yields an event, a rule matches, spawn() fails: .expect panics.
DispatchSpawnFails ==
    /\ CanReceive
    /\ LET event == Head(queue)
           command == FindCommand(matches, event)
       IN  /\ command.some
           /\ stdout' = stdout \o EventLine(event, command.val)
           /\ handled' = Append(handled, Handled(event, command, FALSE))
    /\ queue' = Tail(queue)
    /\ MainPanics("Couldn't execute /bin/sh")
    /\ UNCHANGED <<args, verbose, conf, line_number, matches, readers,
                   children, exit_status>>

\* recv yields an event that no rule matches.
DispatchNoMatch ==
    /\ CanReceive
    /\ LET event == Head(queue)
           command == FindCommand(matches, event)
       IN  /\ ~command.some
           /\ stdout' = stdout \o TemplateLine(event)
           /\ handled' = Append(handled, Handled(event, command, FALSE))
    /\ queue' = Tail(queue)
    /\ UNCHANGED <<args, verbose, pc, conf, line_number, matches, event_tx,
                   event_rx, readers, children, stderr, exit_status>>

\* A return from the wait that throws away what was queued meanwhile.
CommandExitsDrains ==
    /\ pc = "wait"
    /\ \E success \in BOOLEAN : stdout' = stdout \o OutcomeLine(success)
    /\ children' = children - 1
    /\ pc' = "recv"
    /\ queue' = <<>>
    /\ UNCHANGED <<args, verbose, conf, line_number, matches, event_tx,
                   event_rx, readers, stderr, exit_status, handled>>

\* child.wait() returns the exit status of the command.
CommandExits ==
    /\ pc = "wait"
    /\ \E success \in BOOLEAN : stdout' = stdout \o OutcomeLine(success)
    /\ children' = children - 1
    /\ pc' = "recv"
    /\ UNCHANGED <<args, verbose, conf, line_number, matches, event_tx,
                   event_rx, readers, queue, stderr, exit_status, handled>>

\* The channel is disconnected: no Sender is left, main's or a reader's.
Disconnected == ~event_tx /\ \A r \in 1..Len(readers) : ~Running(r)

\* recv returns Err: the loop ends, std::process::exit(1).
RecvFails ==
    /\ pc = "recv"
    /\ queue = <<>>
    /\ Disconnected
    /\ pc' = "exit_loop"
    /\ exit_status' = Some(EXIT_FAILURE)
    /\ UNCHANGED <<args, verbose, conf, line_number, matches, event_tx,
                   event_rx, readers, queue, children, stdout, stderr, handled>>

\* The main thread has unwound: the process ends, and every thread with it.
PanicExit ==
    /\ pc = "unwinding"
    /\ pc' = "panicked"
    /\ UNCHANGED <<args, verbose, conf, line_number, matches, event_tx,
                   event_rx, readers, queue, children, stdout, stderr,
                   exit_status, handled>>

\* ------------------------------------------------------------ the program

Main ==
    \/ OpenConfig \/ OpenConfigFails
    \/ LineSkipped \/ LineIf \/ LineDev \/ LineDevOpenFails
    \/ LineError \/ LinePanics \/ EndOfConfig \/ StartDispatch
    \/ DispatchCommand \/ DispatchSpawnFails \/ DispatchNoMatch
    \/ CommandExits \/ RecvFails \/ PanicExit

ReaderThread(r) ==
    \/ ReaderFilters(r) \/ ReaderForwards(r)
    \/ ReaderSendFails(r) \/ ReaderReadFails(r)

\* Readers are numbered in spawn order. No configuration of ArgChoices names
\* a device twice, so there are at most as many readers as devices.
ReaderIds == 1..Cardinality(ExistingDevices)

Next == Main \/ \E r \in ReaderIds : ReaderThread(r)

Spec == Init /\ [][Next]_vars

\* Every command that main waits for ends, so that child.wait() returns; and
\* a recv on the empty, disconnected channel returns its error.
LiveSpec == Spec /\ WF_vars(CommandExits) /\ WF_vars(RecvFails)

\* ------------------------------------------------------------- properties

\* A rule constrains an event only through the fields it sets.
FieldAgrees(wanted, actual) == wanted.some => wanted.val = actual

Selects(rule, event) ==
    /\ FieldAgrees(rule.wants_type, event.type)
    /\ FieldAgrees(rule.wants_code, event.code)
    /\ FieldAgrees(rule.wants_value, event.value)

Selecting(event) == { i \in 1..Len(matches) : Selects(matches[i], event) }

Lowest(S) == CHOOSE i \in S : \A j \in S : i <= j

OutcomeLines == SelectSeq(stdout, LAMBDA l : l.kind \in {"ok", "status"})

SpawnedEntries == SelectSeq(handled, LAMBDA h : h.spawned)

\* C1: for every event the Dispatcher received, the command chosen is that of
\* the lowest-index rule whose set fields all equal the event's fields (unset
\* fields do not constrain), none when no rule is such; and one command at
\* most is run per event: the commands run are counted by the events received.
C1_FirstMatchWins ==
    /\ \A k \in 1..Len(handled) :
          LET h == handled[k]
          IN  /\ Selecting(h.event) # {} =>
                    h.command = Some(matches[Lowest(Selecting(h.event))].command_to_run)
              /\ Selecting(h.event) = {} => (~h.command.some /\ ~h.spawned)
    /\ Len(SpawnedEntries) = Len(OutcomeLines) + children

\* C1's case: a command was run for an event that a later rule selects too.
C1_Witness ==
    \E k \in 1..Len(handled) :
        /\ handled[k].spawned
        /\ Cardinality(Selecting(handled[k].event)) >= 2

\* C2: there is never more than one command process, and from the spawn of
\* a command to the return of its wait no event is received and no command
\* is spawned, while readers may go on adding events to the queue.
C2_OneCommandAtATime ==
    [][ /\ children' <= 1
        /\ children >= 1 =>
              /\ handled' = handled
              /\ children' <= children
              /\ Len(queue') >= Len(queue)
              /\ SubSeq(queue', 1, Len(queue)) = queue ]_vars

\* C2's case: two events arrived while a command is running.
C2_Witness == children = 1 /\ pc = "wait" /\ Len(queue) >= 2

\* C3: no event of type 0 or 4 is ever in the queue or received by the
\* Dispatcher, and a reader that drops such an event is still running.
C3_SynAndMscNeverDelivered ==
    [][ /\ \A i \in 1..Len(queue') : queue'[i].type \notin {0, 4}
        /\ \A k \in 1..Len(handled') : handled'[k].event.type \notin {0, 4}
        /\ \A r \in 1..Len(readers) :
              (/\ readers'[r].nread = readers[r].nread + 1
               /\ queue' = queue
               /\ event_rx)
              => readers'[r].state = "running" ]_vars

\* C3's case: a reader forwarded its second record after dropping its first.
C3_Witness ==
    \E k \in 1..Len(handled) :
        /\ handled[k].event.seq = 2
        /\ \A j \in 1..Len(handled) :
              ~(handled[j].event.dev = handled[k].event.dev /\ handled[j].event.seq = 1)
        /\ readers[handled[k].event.dev].state = "running"

\* The events the Dispatcher received followed by those still queued.
Delivered == [k \in 1..Len(handled) |-> handled[k].event] \o queue

MatchedEntries == SelectSeq(handled, LAMBDA h : h.command.some)

EventLines == SelectSeq(stdout, LAMBDA l : l.kind = "event")

\* C4: the events of one device are queued and received in the order its
\* reader read them, whatever the other readers do; and the commands are
\* started in the order their events were received (in verbose mode the
\* event/command lines printed before each spawn are those of the matched
\* events, in the order received).
C4_PerDeviceOrder ==
    /\ \A i, j \in 1..Len(Delivered) :
          (i < j /\ Delivered[i].dev = Delivered[j].dev)
             => Delivered[i].seq < Delivered[j].seq
    /\ verbose =>
          /\ Len(EventLines) = Len(MatchedEntries)
          /\ \A k \in 1..Len(EventLines) :
                /\ EventLines[k].type = MatchedEntries[k].event.type
                /\ EventLines[k].code = MatchedEntries[k].event.code
                /\ EventLines[k].value = MatchedEntries[k].event.value
                /\ EventLines[k].text = MatchedEntries[k].command.val

\* C4's case: two events of one device received around one of another device.
C4_Witness ==
    /\ Len(handled) >= 3
    /\ handled[1].event.dev = handled[3].event.dev
    /\ handled[2].event.dev # handled[1].event.dev
    /\ handled[1].spawned /\ handled[3].spawned

\* Every reader has ended and nothing is queued, with main in its loop.
Drained ==
    /\ pc \in {"recv", "wait"}
    /\ queue = <<>>
    /\ \A r \in 1..Len(readers) : ~Running(r)

\* C5: once every reader has ended and the queue is empty (at once, when no
\* device was configured), and given that the running command ends, recv
\* fails, the loop ends and the process exits with status 1; and the loop
\* never ends that way while a reader is running or an event is queued.
C5_LoopEndsWhenDrained ==
    /\ Drained ~> (pc = "exit_loop" /\ exit_status = Some(1))
    /\ [](pc = "exit_loop" =>
            /\ queue = <<>>
            /\ \A r \in 1..Len(readers) : ~Running(r))

\* C5's case: the loop ended after a command was run for a device's event.
C5_Witness ==
    /\ pc = "exit_loop"
    /\ exit_status = Some(1)
    /\ readers # <<>>
    /\ SpawnedEntries # <<>>

ConfigFailed == \E i \in 1..Len(stderr) : stderr[i].kind = "error"

\* C6: when the load of a configuration fails the process exits with nothing
\* received and no command run, whatever rules and readers exist and
\* whatever those readers queued; an event is only ever received after
\* every configuration was loaded.
C6_NoDispatchAfterConfigFailure ==
    /\ ConfigFailed =>
          /\ pc = "exit_config"
          /\ exit_status = Some(1)
          /\ handled = <<>>
          /\ children = 0
          /\ stdout = <<>>
    /\ (handled # <<>> \/ children > 0) => conf = Len(args) + 1

\* C6's case: the second configuration failed with rules of the first in the
\* table and an event of its reader in the queue.
C6_Witness ==
    /\ pc = "exit_config"
    /\ conf = 2
    /\ matches # <<>>
    /\ queue # <<>>

\* C7: a failed read ends the reader it happens to and nothing else: the main
\* thread, the queue, the channel and the other readers are as before; and
\* with a reader gone the others still forward what their devices deliver
\* and the Dispatcher still receives what is queued.
C7_ReadFailureIsLocal ==
    [][ /\ \A r \in 1..Len(readers) :
              (Running(r) /\ readers'[r].state = "panicked") =>
                  /\ <<pc, exit_status, queue, event_rx, matches, children, handled>>'
                       = <<pc, exit_status, queue, event_rx, matches, children, handled>>
                  /\ \A o \in 1..Len(readers) : o # r => readers'[o] = readers[o]
        /\ (\E r \in 1..Len(readers) : readers[r].state = "panicked") =>
              /\ \A o \in 1..Len(readers) :
                    (HasRecord(o) /\ event_rx) => ENABLED ReaderForwards(o)
              /\ CanReceive => ENABLED (DispatchCommand \/ DispatchNoMatch) ]_vars

\* C7's case: a reader's read has failed with an event of its own still
\* queued, while another reader that has forwarded an event is running and
\* the Dispatcher is in its loop, where it has run a command.
C7_Witness ==
    \E r, o \in 1..Len(readers) :
        /\ readers[r].state = "panicked"
        /\ \E i \in 1..Len(queue) : queue[i].dev = r
        /\ Running(o)
        /\ readers[o].nread >= 1
        /\ pc = "recv"
        /\ SpawnedEntries # <<>>

\* C8: every configuration error raised for a line (all but the failure to
\* open the configuration file itself) is printed with the configuration's
\* path and the number of the line.
C8_ErrorsNameSourceAndLine ==
    \A i \in 1..Len(stderr) :
        (stderr[i].kind = "error" /\ stderr[i].text # "opening the file")
           => stderr[i].where = <<args[conf], line_number>>

Tokens(line) == { Splat(line)[i] : i \in 1..Len(Splat(line)) }

IfWithoutThen(line) == Splat(line)[1] = T_if /\ T_then \notin Tokens(line)

\* C9: once load_config has taken an `if` line without a `then` token, it has
\* returned an error naming the path and the line (main printed it and
\* exited), and the rule table is as it was before the line.
C9_IfWithoutThenIsAnError ==
    (/\ conf <= Len(args)
     /\ args[conf] \in DOMAIN ConfigFiles
     /\ pc # "config"
     /\ line_number >= 1
     /\ IfWithoutThen(ConfigFiles[args[conf]][line_number]))
    => /\ pc = "exit_config"
       /\ stderr # <<>>
       /\ stderr[Len(stderr)] \in
             { ParseError(args[conf], line_number, text) :
                  text \in {"\"if\" needs a \"then\"", "wanted \"type=\", \"code=\", \"value\"=, or \"then\" after \"if\""} }

\* C10: without -v nothing is printed to standard output.
C10_QuietWithoutVerbose == ~verbose => stdout = <<>>

\* The lines of the first n configurations of the command line.
RECURSIVE LinesOf(_)
LinesOf(n) == IF n = 0 THEN <<>> ELSE LinesOf(n - 1) \o ConfigFiles[args[n]]

\* The lines load_config has taken so far.
LoadedLines ==
    IF pc = "lines"
    THEN LinesOf(conf - 1) \o SubSeq(ConfigFiles[args[conf]], 1, line_number)
    ELSE LinesOf(conf - 1)

IfLines == SelectSeq(LoadedLines, LAMBDA l : Splat(l)[1] = T_if)

\* The index of the first character of s[first..last] that is in S,
\* last + 1 when there is none.
FirstIndex(s, S, first, last) ==
    IF \E i \in first..last : s[i] \in S
    THEN CHOOSE i \in first..last :
             s[i] \in S /\ \A j \in first..(i - 1) : s[j] \notin S
    ELSE last + 1

\* The text of s[1..last] after its first ':' from the first character that
\* is no whitespace.
TextAfterColon(s, last) ==
    LET colon == FirstIndex(s, {":"}, 1, last)
        start == FirstIndex(s, {s[i] : i \in 1..Len(s)} \ {" ", "\t"}, colon + 1, last)
    IN  SubSeq(s, start, last)

\* The line taken by a step that adds a rule to the table.
RuleLine == ConfigFiles[args[conf]][line_number']

AddsRule == matches' # matches

TableAsLoaded ==
    /\ Len(matches) = Len(IfLines)
    /\ \A k \in 1..Len(matches) : matches[k] = ProcessLine(IfLines[k]).rule

\* C12: the rule table is the rules of the `if` lines in the order of the
\* lines within each configuration, the configurations one after the other
\* in the order of the command line; no step reorders, replaces or removes
\* a rule already in the table.
C12_TableInLoadOrder ==
    [][ /\ Len(matches') >= Len(matches)
        /\ SubSeq(matches', 1, Len(matches)) = matches
        /\ pc \in {"config", "lines"} => TableAsLoaded ]_vars

\* C12's case: the dispatch loop runs with the two rules of the first
\* configuration followed by the rule of the second.
C12_Witness ==
    /\ pc = "recv"
    /\ args = <<"first.conf", "second.conf">>
    /\ [k \in 1..Len(matches) |-> matches[k].command_to_run]
          = << <<"A">>, <<"B">>, <<"C">> >>

SameInput(a, b) ==
    /\ a.type = b.type
    /\ a.code = b.code
    /\ a.value = b.value

\* C13: the command chosen for an event is decided by the event's type, code
\* and value and by the rule table: two events received with the same type,
\* code and value got the same command, whichever devices they came from
\* and wherever they stood in their devices' streams.
C13_DeviceDoesNotMatter ==
    \A k, l \in 1..Len(handled) :
        SameInput(handled[k].event, handled[l].event)
           => handled[k].command = handled[l].command

\* C13's case: the same input came from two devices and a command was chosen
\* for both.
C13_Witness ==
    \E k, l \in 1..Len(handled) :
        /\ SameInput(handled[k].event, handled[l].event)
        /\ handled[k].event.dev # handled[l].event.dev
        /\ handled[k].command.some
        /\ handled[l].command.some

\* The dispatch loop is scheduled: an event that recv can return is
\* received, and the command the loop waits for ends.
FairSpec ==
    /\ Spec
    /\ WF_vars(DispatchCommand)
    /\ WF_vars(DispatchNoMatch)
    /\ WF_vars(CommandExits)

\* The load of a configuration failed, or the main thread panicked.
MainFailed == pc \in {"exit_config", "unwinding", "panicked"}

\* C14 as stated gives this: the process never exits with an event in the
\* queue, the exit after a failed spawn apart.
C14_NothingQueuedAtExit ==
    pc \in {"exit_config", "exit_loop"} => queue = <<>>

\* C14: what was queued and received only ever grows, at its end, by one
\* event that a reader has just read; receiving moves the head of the queue
\* to the events received and nothing else does, so no event is dropped,
\* duplicated or overtaken, whether a command is running or not; and, the
\* dispatch loop being scheduled and every command ending, the n-th event
\* queued is received once the loop is entered, unless a spawn fails.
C14_QueuedOnceReceivedOnce ==
    /\ [][ /\ Len(handled') >= Len(handled)
           /\ \/ Delivered' = Delivered
              \/ \E r \in 1..Len(readers) :
                    /\ Delivered' = Append(Delivered, Delivered'[Len(Delivered')])
                    /\ Delivered'[Len(Delivered')].dev = r
                    /\ Delivered'[Len(Delivered')].seq = readers'[r].nread
                    /\ readers'[r].nread = readers[r].nread + 1 ]_vars
    /\ \A n \in 1..MaxRecords :
          (pc \in {"recv", "wait"} /\ Len(Delivered) >= n)
             ~> (Len(handled) >= n \/ MainFailed)

\* C14's case: a command is running for the second event received while a
\* third event waits in the queue.
C14_Witness ==
    /\ pc = "wait"
    /\ Len(handled) = 2
    /\ handled[2].spawned
    /\ Len(queue) = 1

\* C15: an event is only received when every configuration of the command
\* line has been read to its end, with the table holding the rules of all
\* their `if` lines; and from the first event received on, the table never
\* changes: the events queued by readers spawned early are matched against
\* the whole table.
C15_DispatchAfterWholeLoad ==
    [][ /\ handled' # handled =>
              /\ pc = "recv"
              /\ conf = Len(args) + 1
              /\ TableAsLoaded
        /\ (handled # <<>> \/ pc \notin {"config", "lines"}) => matches' = matches ]_vars

\* C15's case: an event of the first configuration's device got the command
\* of the rule that the second configuration added.
C15_Witness ==
    \E k \in 1..Len(handled) :
        /\ args = <<"first.conf", "second.conf">>
        /\ handled[k].event.dev = 1
        /\ handled[k].spawned
        /\ handled[k].command = Some(<<"C">>)

\* The event that a step receives.
Received == handled'[Len(handled')].event

\* C16: when an event is received that no rule of the table selects (any
\* event, when the table is empty), no command is chosen or spawned, nothing
\* but a line of output changes outside the queue and the loop is at recv
\* again for the next event; with -v exactly one line is printed, the rule
\* template with the type, code and value of that event, and without -v
\* nothing is.
C16_NoMatchNoCommand ==
    [][ (handled' # handled /\ Selecting(Received) = {}) =>
          /\ handled'[Len(handled')].command = NoCommand
          /\ ~handled'[Len(handled')].spawned
          /\ pc' = "recv"
          /\ <<children, stderr, exit_status, event_rx, matches, readers>>'
               = <<children, stderr, exit_status, event_rx, matches, readers>>
          /\ verbose =>
                /\ Len(stdout') = Len(stdout) + 1
                /\ SubSeq(stdout', 1, Len(stdout)) = stdout
                /\ stdout'[Len(stdout')].kind = "template"
                /\ stdout'[Len(stdout')].type = Received.type
                /\ stdout'[Len(stdout')].code = Received.code
                /\ stdout'[Len(stdout')].value = Received.value
          /\ ~verbose => stdout' = stdout ]_vars

\* C16's case: with -v and an empty table two events were received and two
\* templates printed.
C16_Witness ==
    /\ verbose
    /\ matches = <<>>
    /\ Len(handled) = 2
    /\ Len(stdout) = 2
    /\ \A k \in 1..2 : stdout[k].kind = "template"
    /\ pc = "recv"

\* load_config takes the next line of the configuration.
TakesLine == pc = "lines" /\ line_number' = line_number + 1

\* The line has a character that is no whitespace before its first '#'.
HasText(line) ==
    \E i \in 1..(FirstIndex(line, {"#"}, 1, Len(line)) - 1) : ~IsWhitespace(line[i])

\* C17: a line that has a character other than whitespace before its comment
\* is never passed over: taking it spawns a reader, adds a rule or ends the
\* load in failure.
C17_TextLineNeverSkipped ==
    [][ (TakesLine /\ HasText(NextLine)) =>
          \/ Len(readers') = Len(readers) + 1
          \/ Len(matches') = Len(matches) + 1
          \/ MainFailed' ]_vars

\* The maximal runs of characters that are no whitespace, comment left out.
Words(line) == SelectSeq(SplitWhitespace(StripComment(line)), LAMBDA w : w # <<>>)

\* C18: a line that begins with `dev` and whose words are `dev` and the path
\* of a device that can be opened, whatever whitespace separates or follows
\* them and whatever comment ends the line, is accepted: a reader of that
\* device is spawned.
C18_DevLineWithOnePathAccepted ==
    [][ (/\ TakesLine
         /\ StartsWith(NextLine, T_dev)
         /\ Len(Words(NextLine)) = 2
         /\ Words(NextLine)[1] = T_dev
         /\ Words(NextLine)[2] \in ExistingDevices)
        => readers' = Append(readers, Reader(Words(NextLine)[2])) ]_vars

\* The spawn of a command has failed: the panic message of the .expect.
SpawnFailed ==
    \E i \in 1..Len(stderr) :
        stderr[i] = PanicMessage("Couldn't execute /bin/sh", <<>>)

\* C19: a failed spawn happens in the dispatch loop, for an event that a
\* rule selects, and ends the Dispatcher: from then on no event is received
\* and no command is spawned, the main thread is gone with its Receiver and
\* the process does not return to the loop, whatever is queued and whatever
\* the readers do.
C19_SpawnFailureIsFatal ==
    [][ /\ (~SpawnFailed /\ SpawnFailed') =>
              /\ pc = "recv"
              /\ Selecting(Received) # {}
              /\ ~handled'[Len(handled')].spawned
              /\ children' = children
        /\ SpawnFailed =>
              /\ pc \in {"unwinding", "panicked"}
              /\ pc' \in {"unwinding", "panicked"}
              /\ ~event_rx
              /\ handled' = handled
              /\ children' = children
              /\ stdout' = stdout ]_vars

\* C19's case: a spawn failed after a command was run for an earlier event,
\* and with an event queued and a reader running the process has ended.
C19_Witness ==
    /\ SpawnFailed
    /\ pc = "panicked"
    /\ SpawnedEntries # <<>>
    /\ queue # <<>>
    /\ \E r \in 1..Len(readers) : Running(r)

LiveReaders == Cardinality({ r \in 1..Len(readers) : Running(r) })

\* C20: a reader that has stopped, by a failed read or by a closed channel,
\* stays as it stopped: it is never running again, reads no further record
\* and adds no event to the queue; no reader is ever removed or replaced;
\* and once the configurations are loaded the number of running readers
\* never grows.
C20_StoppedReadersStayStopped ==
    [][ /\ Len(readers') >= Len(readers)
        /\ \A r \in 1..Len(readers) :
              /\ readers'[r].dev_path = readers[r].dev_path
              /\ ~Running(r) =>
                    /\ readers'[r] = readers[r]
                    /\ \A i \in 1..Len(queue') :
                          queue'[i].dev = r => \E j \in 1..Len(queue) : queue[j] = queue'[i]
        /\ pc \notin {"config", "lines"} => LiveReaders' <= LiveReaders ]_vars

\* C20's case: one reader has stopped on a failed read and another on the
\* closed channel, each after reading from its device.
C20_Witness ==
    \E r, o \in 1..Len(readers) :
        /\ readers[r].state = "panicked"
        /\ readers[o].state = "ended"
        /\ readers[r].nread >= 1

====
